---- MODULE Spec2Model ----
(***************************************************************************)
(* A model of the resource store of fitz/res_store.c: reference counted    *)
(* storables, the LRU list of items (doubly linked, head = most recently   *)
(* used), the hash index of the items keyed on indirect objects, the size  *)
(* accounting, ensure_space, scavenging, and the FZ_LOCK_ALLOC lock.       *)
(*                                                                         *)
(* Each thread runs one store operation at a time.  An action is the code  *)
(* a thread runs from one fz_lock (or from a point where it runs unlocked) *)
(* to the next fz_unlock: code under the lock is atomic, code outside the  *)
(* lock (the hash table updates of fz_store_item and evict, the free       *)
(* callbacks) interleaves with the other threads.                          *)
(*                                                                         *)
(* unsigned int is modelled at UIntBits bits (TLC's integers are 32 bit    *)
(* signed, so 2^32 cannot be written); all unsigned arithmetic wraps       *)
(* modulo 2^UIntBits exactly as the C arithmetic wraps modulo 2^32.        *)
(***************************************************************************)
EXTENDS Integers, Sequences, FiniteSets, TLC

\* ---------------------------------------------------------------- bounds
UIntBits == 8
MaxItems == 5
MaxHeld == 2
MaxKeyRefs == 3

\* ------------------------------------------------------------- constants
NULL == 0
UINT_MAX == 2^UIntBits - 1
FZ_STORE_UNLIMITED == 0

Threads == {1, 2, 3}
Items == 1..MaxItems
Vals == {1, 2, 3}
Keys == {1, 2, 3}
Frees == {"T", "U"}

\* The free function of each storable (s->free): its destructor identity.
FreeOf(v) == IF v = 2 THEN "U" ELSE "T"

\* fz_is_indirect, fz_to_num, fz_to_gen and fz_objcmp of the three key objects:
\* key 1 is the indirect reference (7 0 R), key 2 is (8 0 R), key 3 is a
\* direct (opaque) object.
fz_is_indirect(k) == k \in {1, 2}
fz_to_num(k) == IF k = 1 THEN 7 ELSE IF k = 2 THEN 8 ELSE 0
fz_to_gen(k) == 0
fz_objcmp(a, b) == IF a = b THEN 0 ELSE 1

\* A key of the hash table that leaves the free function out.
numgen(free, k) == [free |-> "T", num |-> fz_to_num(k), gen |-> fz_to_gen(k)]

\* struct refkey
refkey(free, k) == [free |-> free, num |-> fz_to_num(k), gen |-> fz_to_gen(k)]
RefKeys == {refkey(f, k) : f \in Frees, k \in {k \in Keys : fz_is_indirect(k)}}

\* The hash table, a map from struct refkey to an item (NULL: no entry).
\* fz_hash_insert under a key that is present leaves one of the two items to
\* be found under the key: the results it may have.
fz_hash_find(h, r) == h[r]
fz_hash_remove(h, r) == [h EXCEPT ![r] = NULL]
fz_hash_insert(h, r, item) == {[h EXCEPT ![r] = e] : e \in {item, h[r]} \ {NULL}}

\* unsigned int arithmetic
UAdd(a, b) == (a + b) % (UINT_MAX + 1)
USub(a, b) == (a - b + UINT_MAX + 1) % (UINT_MAX + 1)

\* struct fz_item_s, and the slot of the allocator it lives in (alive).
NoItem == [key |-> 0, val |-> 0, size |-> 0, next |-> NULL, prev |-> NULL, alive |-> FALSE]

\* The locals of a thread inside an operation.
NoLoc == [item |-> NULL, eitem |-> NULL, prev |-> NULL, count |-> 0, tofree |-> 0,
          size |-> 0, itemsize |-> 0, key |-> 0, val |-> 0, drop |-> FALSE,
          phase |-> 0, ssize |-> 0, smax |-> 0, size0 |-> 0, pre |-> FALSE, snap |-> 0,
          phase0 |-> 0, none |-> FALSE]

\* What the last operation to return was and what it returned.
NoLast == [op |-> "", key |-> 0, free |-> "", val |-> 0, ret |-> 0, pre |-> FALSE, n |-> 0,
           phase0 |-> 0, phase |-> 0, none |-> FALSE]

VARIABLES
    head,       \* store->head
    tail,       \* store->tail
    max,        \* store->max
    size,       \* store->size
    hash,       \* store->hash: refkey -> item (NULL: no entry)
    items,      \* the fz_item structs, by slot
    refs,       \* s->refs of each storable
    keyrefs,    \* the reference count of each key object
    lock,       \* the holder of FZ_LOCK_ALLOC (0: free)
    pc,         \* where each thread is
    loc,        \* the locals of each thread
    held,       \* the references to each storable the callers own
    finalized,  \* how many times s->free(ctx, s) has run on each storable
    isStatic,   \* the storables created with refs < 0
    fault,      \* the undefined behaviour the program ran into ("" : none)
    last,       \* the last operation that returned, with its result
    ghost,      \* observations of the run the properties are stated on
    menu        \* the arguments the callers of this run draw from

vars == <<head, tail, max, size, hash, items, refs, keyrefs, lock, pc, loc,
          held, finalized, isStatic, fault, last, ghost, menu>>

\* ------------------------------------------------------ the linked list
\* The store as the code under the lock reads and writes it.
Store == [head |-> head, tail |-> tail, size |-> size, items |-> items, refs |-> refs]

\* An unlink that leaves store->tail alone.
UnlinkKeepTail(S, i) ==
    LET n == S.items[i].next
        its1 == IF n # NULL THEN [S.items EXCEPT ![n].prev = S.items[i].prev] ELSE S.items
        p == its1[i].prev
        its2 == IF p # NULL THEN [its1 EXCEPT ![p].next = its1[i].next] ELSE its1
        hd1 == IF p # NULL THEN S.head ELSE its1[i].next
    IN  [S EXCEPT !.items = its2, !.head = hd1]

\* "Unlink from the linked list" (evict, fz_find_item, fz_remove_item).
Unlink(S, i) ==
    LET n == S.items[i].next
        its1 == IF n # NULL THEN [S.items EXCEPT ![n].prev = S.items[i].prev] ELSE S.items
        tl1 == IF n # NULL THEN S.tail ELSE S.items[i].prev
        p == its1[i].prev
        its2 == IF p # NULL THEN [its1 EXCEPT ![p].next = its1[i].next] ELSE its1
        hd1 == IF p # NULL THEN S.head ELSE its1[i].next
    IN  [S EXCEPT !.items = its2, !.head = hd1, !.tail = tl1]

\* Insert at the tail: the item becomes the least recently used.
LinkTail(S, i) ==
    LET its1 == [S.items EXCEPT ![i].prev = S.tail]
        p == its1[i].prev
        its2 == IF p # NULL THEN [its1 EXCEPT ![p].next = i] ELSE its1
        hd1 == IF p # NULL THEN S.head ELSE i
    IN  [S EXCEPT !.items = [its2 EXCEPT ![i].next = NULL], !.tail = i, !.head = hd1]

\* "Insert at head" (fz_find_item, fz_store_item).
LinkHead(S, i) ==
    LET its1 == [S.items EXCEPT ![i].next = S.head]
        n == its1[i].next
        its2 == IF n # NULL THEN [its1 EXCEPT ![n].prev = i] ELSE its1
        tl1 == IF n # NULL THEN S.tail ELSE i
    IN  [S EXCEPT !.items = [its2 EXCEPT ![i].prev = NULL], !.head = i, !.tail = tl1]

\* The part of evict that runs under the lock: the size, the unlink, the drop
\* of the store's reference.  drop says whether the value is to be freed.
EvictLocked(S, i) ==
    LET S1 == Unlink([S EXCEPT !.size = USub(S.size, S.items[i].size)], i)
        v == S1.items[i].val
        drop == S1.refs[v] > 0 /\ S1.refs[v] - 1 = 0
    IN  [S |-> IF S1.refs[v] > 0 THEN [S1 EXCEPT !.refs[v] = @ - 1] ELSE S1,
         drop |-> drop]

\* The items from i following next (from the head: the list), as far as
\* MaxItems + 1 steps: a longer walk is a walk round a cycle.
RECURSIVE FollowNext(_, _, _)
FollowNext(its, i, fuel) ==
    IF i = NULL \/ fuel = 0 THEN <<>> ELSE <<i>> \o FollowNext(its, its[i].next, fuel - 1)

RECURSIVE FollowPrev(_, _, _)
FollowPrev(its, i, fuel) ==
    IF i = NULL \/ fuel = 0 THEN <<>> ELSE <<i>> \o FollowPrev(its, its[i].prev, fuel - 1)

ListFromHead == FollowNext(items, head, MaxItems + 1)
ListFromTail == FollowPrev(items, tail, MaxItems + 1)
Range(s) == {s[n] : n \in DOMAIN s}

\* ---------------------------------------------------------- ensure_space
\* Pass 1 of ensure_space, from item with count so far: "yes" when the walk
\* breaks with count >= tofree, "no" when it runs out of items, "hang" when
\* it does not end (the list is cyclic).
RECURSIVE ensure_space_pass1(_, _, _, _, _)
ensure_space_pass1(S, item, count, tofree, fuel) ==
    IF item = NULL THEN "no"
    ELSE IF fuel = 0 THEN "hang"
    ELSE IF S.refs[S.items[item].val] = 1
         THEN LET c == UAdd(count, S.items[item].size)
              IN  IF c >= tofree THEN "yes"
                  ELSE ensure_space_pass1(S, S.items[item].prev, c, tofree, fuel - 1)
         ELSE ensure_space_pass1(S, S.items[item].prev, count, tofree, fuel - 1)

\* The walk that takes any item whose value is counted, whoever holds it.
RECURSIVE NextCounted(_, _, _)
NextCounted(S, item, fuel) ==
    IF item = NULL THEN NULL
    ELSE IF fuel = 0 THEN -1
    ELSE IF S.refs[S.items[item].val] >= 1 THEN item
    ELSE NextCounted(S, S.items[item].prev, fuel - 1)

\* The walk that also takes the items whose count is below 1.
RECURSIVE NextUnheld(_, _, _)
NextUnheld(S, item, fuel) ==
    IF item = NULL THEN NULL
    ELSE IF fuel = 0 THEN -1
    ELSE IF S.refs[S.items[item].val] <= 1 THEN item
    ELSE NextUnheld(S, S.items[item].prev, fuel - 1)

\* The walk of pass 2 (and of scavenge) from item towards the head: the
\* first item whose value has refs == 1; NULL when there is none, -1 when the
\* walk does not end.
RECURSIVE NextEvictable(_, _, _)
NextEvictable(S, item, fuel) ==
    IF item = NULL THEN NULL
    ELSE IF fuel = 0 THEN -1
    ELSE IF S.refs[S.items[item].val] = 1 THEN item
    ELSE NextEvictable(S, S.items[item].prev, fuel - 1)

\* The items a walk from item passes over before it reaches upto.
RECURSIVE PassedOver(_, _, _, _)
PassedOver(S, item, upto, fuel) ==
    IF item = NULL \/ item = upto \/ fuel = 0 THEN {}
    ELSE {item} \cup PassedOver(S, S.items[item].prev, upto, fuel - 1)

\* No pressure eviction in this step.
NoEv == [item |-> NULL, refs |-> 0, passed |-> {}, spared |-> {}, cands |-> {}]

\* What a sweep evicts, for the record: the item, the refs of its value when
\* the sweep chose it, the items the sweep passed over on its way from start
\* whose value had refs == 1, the values of those it passed over with
\* refs > 1, and the items whose value had refs == 1 at that moment.
Evicting(S, start, e) ==
    [item |-> e, refs |-> S.refs[S.items[e].val],
     passed |-> {i \in PassedOver(S, start, e, MaxItems + 1) : S.refs[S.items[i].val] = 1},
     spared |-> {S.items[i].val : i \in {j \in PassedOver(S, start, e, MaxItems + 1) :
                                             S.refs[S.items[j].val] > 1}},
     cands |-> {i \in Items : S.items[i].val \in Vals /\ S.refs[S.items[i].val] = 1}]

\* fz_store_item gives up: "Failed to free any space", fz_free(ctx, item).
StoreAbandon(S, L) ==
    [S |-> [S EXCEPT !.items[L.item] = NoItem], pc |-> "idle", loc |-> L, keep |-> 0,
     ev |-> NoEv,
     last |-> [NoLast EXCEPT !.op = "store", !.ret = 0,
                              !.pre = L.pre, !.n = S.size]]

Hang(S, L) == [S |-> S, pc |-> "hang", loc |-> L, keep |-> 0, ev |-> NoEv, last |-> NoLast]

\* Pass 2 of ensure_space from item start with L.count freed so far, up to
\* the unlock inside evict; pc "es_return" when the loop ends first.
ensure_space_pass2(S, L, start) ==
    LET e == NextEvictable(S, start, MaxItems + 1) IN
    IF e = -1 THEN Hang(S, L)
    ELSE IF e = NULL
    THEN [S |-> S, pc |-> "es_return", loc |-> L, keep |-> 0, ev |-> NoEv, last |-> NoLast]
    ELSE LET prev == S.items[e].prev
             S1 == IF prev # NULL THEN [S EXCEPT !.refs[S.items[prev].val] = @ + 1] ELSE S
             ev == EvictLocked(S1, e)
         IN  [S |-> ev.S, pc |-> "es_evict",
              loc |-> [L EXCEPT !.eitem = e, !.prev = prev, !.drop = ev.drop,
                                !.count = UAdd(L.count, S.items[e].size)],
              keep |-> 0, ev |-> Evicting(S, start, e), last |-> NoLast]

\* ensure_space(ctx, L.tofree) from its start.
ensure_space(S, L) ==
    LET p1 == ensure_space_pass1(S, S.tail, 0, L.tofree, MaxItems + 1) IN
    IF p1 = "no" THEN StoreAbandon(S, L)
    ELSE IF p1 = "hang" THEN Hang(S, L)
    ELSE LET r == ensure_space_pass2(S, [L EXCEPT !.count = 0], S.tail)
         IN  IF r.pc = "es_return" THEN StoreAbandon(S, L) ELSE r

\* fz_store_item from "Now we can never fail, bump the ref" to its end.
StoreLink(S, L) ==
    LET v == L.val
        S1 == IF S.refs[v] > 0 THEN [S EXCEPT !.refs[v] = @ + 1] ELSE S
    IN  [S |-> LinkHead(S1, L.item), pc |-> "idle", loc |-> L, keep |-> 0, ev |-> NoEv,
         last |-> [NoLast EXCEPT !.op = "store", !.ret = 1,
                                  !.pre = L.pre, !.n = S.size]]

\* fz_store_item from store->size += itemsize: the item is filled in, and
\* either indexed outside the lock or linked at once.
StoreReserve(S, L) ==
    LET S1 == [S EXCEPT !.size = UAdd(S.size, L.itemsize),
                        !.items[L.item] = [@ EXCEPT !.key = L.key, !.val = L.val,
                                                    !.size = L.itemsize, !.next = NULL]]
    IN  IF fz_is_indirect(L.key)
        THEN [S |-> S1, pc |-> "store_hash", loc |-> L, keep |-> 1, ev |-> NoEv, last |-> NoLast]
        ELSE [StoreLink(S1, L) EXCEPT !.keep = 1]

\* The while (size > store->max) loop of fz_store_item, at its test.
StoreLoop(S, L) ==
    IF max # FZ_STORE_UNLIMITED /\ L.size > max
    THEN ensure_space(S, [L EXCEPT !.tofree = USub(L.size, max)])
    ELSE StoreReserve(S, L)

\* ------------------------------------------------------------- scavenging
\* scavenge(ctx, L.tofree) from the top of its loop (item = store->tail) with
\* L.count freed so far, up to the unlock inside evict; pc "scv_return" when
\* the loop ends first.
scavenge(S, L) ==
    LET e == NextEvictable(S, S.tail, MaxItems + 1) IN
    IF e = -1 THEN Hang(S, L)
    ELSE IF e = NULL
    THEN [S |-> S, pc |-> "scv_return", loc |-> L, keep |-> 0, ev |-> NoEv, last |-> NoLast]
    ELSE LET ev == EvictLocked(S, e)
         IN  [S |-> ev.S, pc |-> "scv_evict",
              loc |-> [L EXCEPT !.eitem = e, !.drop = ev.drop,
                                !.count = UAdd(L.count, S.items[e].size)],
              keep |-> 0, ev |-> Evicting(S, S.tail, e), last |-> NoLast]

\* 'max' as the maximum size of the store for this phase.
PhaseMax(S, phase) ==
    IF phase >= 16 THEN 0
    ELSE IF max # FZ_STORE_UNLIMITED THEN (max \div 16) * (16 - phase)
    ELSE (S.size \div (16 - phase)) * (15 - phase)

ScavengeReturn(S, L, ret) ==
    [S |-> S, pc |-> "idle", loc |-> L, keep |-> 0, ev |-> NoEv,
     last |-> [NoLast EXCEPT !.op = "scavenge", !.ret = ret, !.pre = L.pre,
                              !.val = L.ssize, !.n = USub(L.size0, S.size),
                              !.phase0 = L.phase0, !.phase = L.phase, !.none = L.none]]

\* The do ... while (max > 0) loop of fz_store_scavenge from the top of its
\* body, with *phase == L.phase.
RECURSIVE fz_store_scavenge(_, _)
fz_store_scavenge(S, L) ==
    LET mx == PhaseMax(S, L.phase)
        L1 == [L EXCEPT !.phase = @ + 1, !.smax = mx, !.count = 0]
        skip == ~(L.ssize > UINT_MAX - S.size) /\ L.ssize + S.size > mx
        tofree == IF L.ssize > UINT_MAX - S.size THEN UINT_MAX - mx
                  ELSE USub(L.ssize + S.size, mx)
        r == scavenge(S, [L1 EXCEPT !.tofree = tofree])
    IN  IF ~skip /\ r.pc # "scv_return" THEN r
        ELSE IF mx > 0 THEN fz_store_scavenge(S, L1)
        ELSE ScavengeReturn(S, L1, 0)

\* ------------------------------------------------------------ bookkeeping
\* Whether anything still points to slot i once thread t is done with it.
PointedTo(its, hd, tl, h, lc, i) ==
    \/ hd = i \/ tl = i
    \/ \E r \in RefKeys : h[r] = i
    \/ \E j \in Items \ {i} : its[j] # NoItem /\ (its[j].next = i \/ its[j].prev = i)
    \/ \E u \in Threads : lc[u].item = i \/ lc[u].eitem = i \/ lc[u].prev = i

\* fz_free(ctx, item): the slot is dead.
FreeItem(its, i) == [its EXCEPT ![i].alive = FALSE]

\* The allocator takes back the dead slots nothing points to any more.
Reclaim(its, hd, tl, h, lc) ==
    [i \in Items |-> IF ~its[i].alive /\ ~PointedTo(its, hd, tl, h, lc, i)
                     THEN NoItem ELSE its[i]]

\* fz_malloc_struct(ctx, fz_item): a free slot, zeroed.
FreeSlots == {i \in Items : items[i] = NoItem}
AllocSlot == CHOOSE i \in FreeSlots : \A j \in FreeSlots : i <= j

\* s->free(ctx, s) runs, called by a thread that holds the lock or not.
Finalize(fin, v) == [fin EXCEPT ![v] = IF @ < 2 THEN @ + 1 ELSE @]

\* The record of the run: what the properties are stated on.  lru is the
\* recency order of the cached entries as the operations define it (an insert
\* or a hit makes an entry the most recent), kept apart from the pointers.
NoGhost == [finLocked |-> FALSE, evRefs |-> {}, evPassed |-> FALSE, evNotLru |-> FALSE,
            lru |-> <<>>, born |-> <<>>, evlog |-> <<>>, spared |-> {},
            evSpared |-> FALSE, admitOver |-> FALSE, dup |-> FALSE, removed |-> {}]

Without(seq, x) == SelectSeq(seq, LAMBDA y : y # x)

\* The entry of seq nearest its end that is in set (NULL: none).
LastIn(seq, set) ==
    LET idx == {n \in DOMAIN seq : seq[n] \in set}
    IN  IF idx = {} THEN NULL ELSE seq[CHOOSE n \in idx : \A m \in idx : m <= n]

GhostUnlink(g, i) ==
    [g EXCEPT !.lru = Without(@, i),
              !.born = IF "lru" \in menu.rec THEN Without(@, items[i].val) ELSE @]

GhostEv(g, ev) ==
    IF ev.item = NULL THEN g
    ELSE [GhostUnlink(g, ev.item) EXCEPT
                   !.evRefs = @ \cup {ev.refs},
                   !.evPassed = @ \/ ev.passed # {},
                   !.evNotLru = @ \/ LastIn(g.lru, ev.cands) # ev.item,
                   !.spared = IF "spared" \in menu.rec
                              THEN @ \cup ev.spared ELSE @,
                   !.evSpared = @ \/ items[ev.item].val \in g.spared,
                   !.evlog = IF "lru" \in menu.rec /\ Len(@) < 2
                             THEN Append(@, [val |-> items[ev.item].val, born |-> g.born])
                             ELSE @]

\* fz_store_item has linked item i with key k and value v.
GhostLink(g, S, i, k, v) ==
    [g EXCEPT !.lru = <<i>> \o @,
              !.born = IF "lru" \in menu.rec THEN Append(@, v) ELSE @,
              !.admitOver = @ \/ (max # FZ_STORE_UNLIMITED /\ S.size > max),
              !.dup = @ \/ \E n \in DOMAIN g.lru :
                              /\ items[g.lru[n]].key = k
                              /\ FreeOf(items[g.lru[n]].val) = FreeOf(v)]

\* fz_remove_item has unlinked the item of (free, k), leaving the list of S.
GhostRemove(g, S, free, k) ==
    IF "find" \in menu.rec
    THEN [g EXCEPT !.removed = @ \cup {[free |-> free, key |-> k,
                      left |-> {S.items[i].val : i \in Range(FollowNext(S.items, S.head, MaxItems + 1))}]}]
    ELSE g

\* fz_find_item has hit item i.
GhostTouch(g, i) == [g EXCEPT !.lru = <<i>> \o Without(@, i)]

\* A step that ends with the lock still held by the thread.
LockKept(t, newpc) == t

\* The lock after the code of a step: the steps end at an fz_unlock, except
\* where the thread never gets there.
LockAfter(t, newpc) == IF newpc = "hang" THEN t ELSE 0

\* Everything a step of thread t may change, as it is before the step.
Base(t) ==
    [S |-> Store, hash |-> hash, pc |-> pc[t], loc |-> loc[t], keyrefs |-> keyrefs,
     held |-> held, finalized |-> finalized, ghost |-> ghost, last |-> last]

\* The result of a piece of fz_store_item or fz_store_scavenge as an update.
FromR(t, R) ==
    [Base(t) EXCEPT !.S = R.S, !.pc = R.pc, !.loc = R.loc,
                    !.keyrefs = IF R.keep = 1 THEN [keyrefs EXCEPT ![R.loc.key] = @ + 1]
                                ELSE keyrefs,
                    !.ghost = IF R.last.op = "store" /\ R.last.ret = 1
                              THEN GhostLink(ghost, R.S, R.loc.item, R.loc.key, R.loc.val)
                              ELSE GhostEv(ghost, R.ev),
                    !.last = IF R.last.op # "" THEN R.last ELSE last]

Commit(t, U) ==
    LET newloc == [loc EXCEPT ![t] = IF U.pc = "idle" THEN NoLoc ELSE U.loc] IN
    /\ head' = U.S.head
    /\ tail' = U.S.tail
    /\ size' = U.S.size
    /\ refs' = U.S.refs
    /\ hash' = U.hash
    /\ items' = Reclaim(U.S.items, U.S.head, U.S.tail, U.hash, newloc)
    /\ pc' = [pc EXCEPT ![t] = U.pc]
    /\ loc' = newloc
    /\ lock' = IF lock \notin {0, t} THEN lock ELSE LockAfter(t, U.pc)
    /\ keyrefs' = U.keyrefs
    /\ held' = U.held
    /\ finalized' = U.finalized
    /\ ghost' = U.ghost
    /\ last' = IF U.last.op \in menu.rec THEN U.last ELSE last
    /\ UNCHANGED <<max, isStatic, menu, fault>>

Running == fault = ""
CanStart(t) == Running /\ pc[t] = "idle"

\* The declared sizes of the items of seq, added up.
RECURSIVE SumSizes(_)
SumSizes(seq) == IF seq = <<>> THEN 0 ELSE items[Head(seq)].size + SumSizes(Tail(seq))

Evictable(i) == refs[items[i].val] = 1
ListTotal == SumSizes(ListFromHead)
EvictableTotal == SumSizes(SelectSeq(ListFromHead, Evictable))

\* The store is bounded, the item does not fit, and evicting the items whose
\* value has refs == 1 would make room for it.
StorePre(itemsize) ==
    /\ max # FZ_STORE_UNLIMITED
    /\ size + itemsize > max
    /\ EvictableTotal >= size + itemsize - max

\* fz_store_scavenge is called with *phase == 0 for ssize > 0 bytes on a store
\* all of whose items are evictable and total at least ssize.
ScavengePre(ssize, phase) ==
    /\ phase = 0 /\ ssize > 0
    /\ \A n \in DOMAIN ListFromHead : Evictable(ListFromHead[n])
    /\ ListTotal >= ssize

\* No item of the list is evictable: every value is held or static.
NoEvictable == \A i \in Range(ListFromHead) : refs[items[i].val] # 1

\* ------------------------------------------------------------- storables
fz_keep_storable(t, v) ==
    /\ CanStart(t) /\ lock = 0
    /\ held[v] > 0 /\ held[v] < MaxHeld
    /\ Commit(t, [Base(t) EXCEPT !.S.refs[v] = IF @ > 0 THEN @ + 1 ELSE @,
                                 !.held[v] = @ + 1,
                                 !.last = [NoLast EXCEPT !.op = "keep", !.val = v]])

\* fz_drop_storable up to its fz_unlock.
fz_drop_storable(t, v) ==
    /\ CanStart(t) /\ lock = 0
    /\ held[v] > 0
    /\ LET do_free == ~(refs[v] < 0) /\ refs[v] - 1 = 0
           U == [Base(t) EXCEPT !.S.refs[v] = IF @ < 0 THEN @ ELSE @ - 1,
                                !.held[v] = @ - 1]
       IN  IF do_free
           THEN Commit(t, [U EXCEPT !.pc = "drop_free", !.loc = [NoLoc EXCEPT !.val = v]])
           ELSE Commit(t, [U EXCEPT !.last = [NoLast EXCEPT !.op = "drop", !.val = v]])

\* fz_drop_storable: if (do_free) s->free(ctx, s).
DropFree(t) ==
    /\ Running /\ pc[t] = "drop_free"
    /\ Commit(t, [Base(t) EXCEPT !.pc = "idle",
                                 !.finalized = Finalize(finalized, loc[t].val),
                                 !.ghost.finLocked = @ \/ lock = t,
                                 !.last = [NoLast EXCEPT !.op = "drop", !.val = loc[t].val]])

\* ------------------------------------------------------------------ evict
AfterEvict(p) ==
    IF p = "es_evict" THEN "es_relock" ELSE IF p = "scv_evict" THEN "scv_relock" ELSE "clr_relock"

\* evict between its fz_unlock and its fz_lock: the hash table, the free of
\* the value, the key and the item.
EvictUnlocked(t) ==
    /\ Running /\ pc[t] \in {"es_evict", "scv_evict", "clr_evict"}
    /\ LET i == loc[t].eitem
           k == items[i].key
           v == items[i].val
       IN  Commit(t, [Base(t) EXCEPT
                !.hash = IF fz_is_indirect(k) THEN fz_hash_remove(hash, refkey(FreeOf(v), k))
                         ELSE hash,
                !.finalized = IF loc[t].drop THEN Finalize(finalized, v) ELSE finalized,
                !.ghost.finLocked = @ \/ (loc[t].drop /\ lock = t),
                !.keyrefs[k] = @ - 1,
                !.S.items = FreeItem(items, i),
                !.loc.eitem = NULL,
                !.pc = AfterEvict(pc[t])])

\* evict returns: fz_lock(ctx, FZ_LOCK_ALLOC), line 132.
AfterLock(p) ==
    IF p = "es_relock" THEN "es_back" ELSE IF p = "scv_relock" THEN "scv_back" ELSE "clr_back"

EvictReturn(t) ==
    /\ Running /\ pc[t] \in {"es_relock", "scv_relock", "clr_relock"} /\ lock = 0
    /\ lock' = t
    /\ pc' = [pc EXCEPT ![t] = AfterLock(pc[t])]
    /\ UNCHANGED <<head, tail, max, size, hash, items, refs, keyrefs, loc, held,
                   finalized, isStatic, fault, last, ghost, menu>>

\* ---------------------------------------------------------- fz_store_item
\* What an insert of value v under key k can change and must put back when it
\* is abandoned, as it is when fz_store_item is called.
Snap(k, v) ==
    IF "rollback" \in menu.rec
    THEN [size |-> size, list |-> ListFromHead, hash |-> hash, refs |-> refs[v],
          keyrefs |-> keyrefs[k]]
    ELSE 0

\* fz_store_item from its start to its first fz_unlock.
fz_store_item(t, k, v, itemsize) ==
    /\ CanStart(t) /\ lock = 0
    /\ held[v] > 0
    /\ FreeSlots # {}
    /\ LET item == AllocSlot
           S0 == [Store EXCEPT !.items[item] = [NoItem EXCEPT !.alive = TRUE]]
           L == [NoLoc EXCEPT !.item = item, !.key = k, !.val = v, !.itemsize = itemsize,
                              !.size = UAdd(size, itemsize), !.size0 = size,
                              !.pre = StorePre(itemsize), !.snap = Snap(k, v)]
       IN  Commit(t, FromR(t, StoreLoop(S0, L)))

\* fz_store_item when fz_malloc_struct throws: nothing is stored.
StoreNoMem(t, k, v) ==
    /\ CanStart(t)
    /\ held[v] > 0
    /\ Commit(t, [Base(t) EXCEPT !.pc = "idle",
                                 !.last = [NoLast EXCEPT !.op = "store", !.n = size]])

\* ensure_space after evict has returned, to the next fz_unlock.
EnsureRelock(t) ==
    /\ Running /\ pc[t] = "es_back" /\ lock = t
    /\ loc[t].prev # NULL
    /\ LET L == loc[t]
           S1 == [Store EXCEPT !.refs[items[L.prev].val] = @ - 1]
           r == ensure_space_pass2(S1, L, L.prev)
           R == IF L.count >= L.tofree THEN StoreLoop(S1, L)
                ELSE IF r.pc # "es_return" THEN r
                ELSE IF L.count = 0 THEN StoreAbandon(S1, L)
                ELSE StoreLoop(S1, L)
       IN  Commit(t, FromR(t, R))

\* fz_hash_insert(ctx, store->hash, &refkey, item), outside the lock.
StoreHashInsert(t) ==
    /\ Running /\ pc[t] = "store_hash"
    /\ \E h \in fz_hash_insert(hash, refkey(FreeOf(loc[t].val), loc[t].key), loc[t].item) :
           Commit(t, [Base(t) EXCEPT !.hash = h, !.pc = "store_link"])

\* fz_hash_insert throws: fz_free(ctx, item).
StoreHashFail(t) ==
    /\ Running /\ pc[t] = "store_hash"
    /\ keyrefs[loc[t].key] <= MaxKeyRefs
    /\ Commit(t, [Base(t) EXCEPT !.S.items = FreeItem(items, loc[t].item),
                                 !.loc.item = NULL,
                                 !.pc = "store_rollback"])

\* The catch block of fz_store_item: store->size -= itemsize, under the lock.
StoreRollback(t) ==
    /\ Running /\ pc[t] = "store_rollback" /\ lock = 0
    /\ Commit(t, [Base(t) EXCEPT !.S.size = USub(size, loc[t].itemsize),
                                 !.pc = "idle",
                                 !.last = [NoLast EXCEPT !.op = "store",
                                                         !.n = USub(size, loc[t].itemsize)]])

\* fz_store_item from the fz_lock after fz_hash_insert to its end.
StoreLinkStep(t) ==
    /\ Running /\ pc[t] = "store_link" /\ lock = 0
    /\ Commit(t, FromR(t, StoreLink(Store, loc[t])))

\* ------------------------------------------- fz_find_item, fz_remove_item
\* The search of fz_find_item and fz_remove_item for a key that is not
\* indirect: the walk from the head.  NULL when there is no such item, -1 when
\* the walk does not end.
RECURSIVE Hunt(_, _, _, _, _)
Hunt(its, item, free, k, fuel) ==
    IF item = NULL THEN NULL
    ELSE IF fuel = 0 THEN -1
    ELSE IF FreeOf(its[item].val) = free /\ fz_objcmp(its[item].key, k) = 0 THEN item
    ELSE Hunt(its, its[item].next, free, k, fuel - 1)

\* The value the list holds under (free, k), by its items' own key and free
\* function (NULL: none).
Cached(free, k) ==
    LET m == {i \in Range(ListFromHead) : items[i].key = k /\ FreeOf(items[i].val) = free}
    IN  IF m = {} THEN NULL ELSE items[CHOOSE i \in m : TRUE].val

\* The search: the hash table for an indirect key, the walk for another.
FindEntry(free, k) ==
    IF fz_is_indirect(k) THEN fz_hash_find(hash, refkey(free, k))
    ELSE Hunt(items, head, free, k, MaxItems + 1)

fz_find_item(t, free, k) ==
    /\ CanStart(t) /\ lock = 0
    /\ LET item == FindEntry(free, k)
           v == items[item].val
           S1 == LinkHead(Unlink(Store, item), item)
           lst == [NoLast EXCEPT !.op = "find", !.key = k, !.free = free, !.n = Cached(free, k)]
       IN  IF item = -1
           THEN Commit(t, [Base(t) EXCEPT !.pc = "hang"])
           ELSE IF item # NULL
           THEN /\ held[v] < MaxHeld
                /\ Commit(t, [Base(t) EXCEPT
                        !.S = IF S1.refs[v] > 0 THEN [S1 EXCEPT !.refs[v] = @ + 1] ELSE S1,
                        !.held[v] = @ + 1,
                        !.ghost = GhostTouch(ghost, item),
                        !.last = [lst EXCEPT !.ret = v]])
           ELSE Commit(t, [Base(t) EXCEPT !.last = lst])

\* fz_remove_item up to its fz_unlock.
fz_remove_item(t, free, k) ==
    /\ CanStart(t) /\ lock = 0
    /\ LET item == FindEntry(free, k)
           v == items[item].val
           S1 == Unlink(Store, item)
           drop == S1.refs[v] > 0 /\ S1.refs[v] - 1 = 0
           lst == [NoLast EXCEPT !.op = "remove", !.key = k, !.free = free]
       IN  IF item = -1
           THEN Commit(t, [Base(t) EXCEPT !.pc = "hang"])
           ELSE IF item # NULL
           THEN Commit(t, [Base(t) EXCEPT
                    !.hash = IF fz_is_indirect(k) THEN fz_hash_remove(hash, refkey(free, k))
                             ELSE hash,
                    !.S = IF S1.refs[v] > 0 THEN [S1 EXCEPT !.refs[v] = @ - 1] ELSE S1,
                    !.ghost = GhostRemove(GhostUnlink(ghost, item), S1, free, k),
                    !.pc = "rm_free",
                    !.loc = [NoLoc EXCEPT !.item = item, !.drop = drop, !.key = k]])
           ELSE Commit(t, [Base(t) EXCEPT !.last = lst])

\* fz_remove_item after its fz_unlock: the free of the value, the key, the item.
RemoveFree(t) ==
    /\ Running /\ pc[t] = "rm_free"
    /\ LET i == loc[t].item
           v == items[i].val
       IN  Commit(t, [Base(t) EXCEPT
                !.finalized = IF loc[t].drop THEN Finalize(finalized, v) ELSE finalized,
                !.ghost.finLocked = @ \/ (loc[t].drop /\ lock = t),
                !.keyrefs[items[i].key] = @ - 1,
                !.S.items = FreeItem(items, i),
                !.pc = "idle",
                !.last = [NoLast EXCEPT !.op = "remove", !.key = loc[t].key,
                                        !.free = FreeOf(v), !.ret = v]])

\* ---------------------------------------------------------- fz_empty_store
\* while (store->head) evict(ctx, store->head), up to the next fz_unlock.
EmptyLoop(t, U) ==
    IF head = NULL
    THEN Commit(t, [U EXCEPT !.pc = "idle", !.last = [NoLast EXCEPT !.op = "empty"]])
    ELSE LET ev == EvictLocked(Store, head)
         IN  Commit(t, [U EXCEPT !.S = ev.S, !.pc = "clr_evict",
                                 !.ghost = GhostUnlink(ghost, head),
                                 !.loc = [NoLoc EXCEPT !.eitem = head, !.drop = ev.drop]])

fz_empty_store(t) ==
    /\ CanStart(t) /\ lock = 0
    /\ EmptyLoop(t, Base(t))

EmptyRelock(t) ==
    /\ Running /\ pc[t] = "clr_back" /\ lock = t
    /\ EmptyLoop(t, Base(t))

\* ------------------------------------------------------ fz_store_scavenge
\* The allocator, holding the lock, calls fz_store_scavenge(ctx, ssize, &phase).
Scavenge(t, ssize, phase) ==
    /\ CanStart(t) /\ lock = 0
    /\ LET L == [NoLoc EXCEPT !.ssize = ssize, !.phase = phase, !.size0 = size,
                              !.pre = ScavengePre(ssize, phase),
                              !.phase0 = phase, !.none = NoEvictable]
       IN  Commit(t, FromR(t, fz_store_scavenge(Store, L)))

\* scavenge after evict has returned.
ScavengeRelock(t) ==
    /\ Running /\ pc[t] = "scv_back" /\ lock = t
    /\ LET L == loc[t]
           r == scavenge(Store, L)
           done == IF L.count # 0 THEN ScavengeReturn(Store, L, 1)
                   ELSE IF L.smax > 0 THEN fz_store_scavenge(Store, L)
                   ELSE ScavengeReturn(Store, L, 0)
           R == IF L.count >= L.tofree THEN done
                ELSE IF r.pc # "scv_return" THEN r
                ELSE done
       IN  Commit(t, FromR(t, R))

\* ---------------------------------------------------- undefined behaviour
\* ensure_space, line 186: --prev->val->refs with prev == NULL.
NullPrev(t) ==
    /\ Running /\ pc[t] = "es_back" /\ lock = t
    /\ loc[t].prev = NULL
    /\ fault' = "null"
    /\ UNCHANGED <<head, tail, max, size, hash, items, refs, keyrefs, lock, pc, loc, held,
                   finalized, isStatic, last, ghost, menu>>

\* The items and values a step of the store reads: those of the list and of
\* the hash table.
Reached == (Range(ListFromHead) \cup Range(ListFromTail) \cup {hash[r] : r \in RefKeys}) \ {NULL}
DeadReached == \E i \in Reached : ~items[i].alive \/ finalized[items[i].val] > 0

\* A thread reads or writes memory that has been freed: an item that
\* fz_free has taken, a storable whose free function has run.  The program may
\* go on with what the memory still holds (the other actions) or stop here.
UseAfterFree(t) ==
    /\ Running
    /\ \/ /\ pc[t] = "es_back" /\ loc[t].prev # NULL
          /\ ~items[loc[t].prev].alive \/ finalized[items[loc[t].prev].val] > 0
       \/ /\ pc[t] \in {"es_evict", "scv_evict", "clr_evict"}
          /\ ~items[loc[t].eitem].alive
       \/ /\ pc[t] = "rm_free"
          /\ ~items[loc[t].item].alive
       \/ /\ pc[t] \in {"es_back", "scv_back", "clr_back"} \/ (pc[t] = "store_link" /\ lock = 0)
          /\ DeadReached
       \/ /\ CanStart(t) /\ lock = 0
          /\ DeadReached \/ \E v \in menu.vals : held[v] > 0 /\ finalized[v] > 0
    /\ fault' = "uaf"
    /\ UNCHANGED <<head, tail, max, size, hash, items, refs, keyrefs, lock, pc, loc, held,
                   finalized, isStatic, last, ghost, menu>>

\* ---------------------------------------------------------- specification
\* The state after fz_new_store_context(ctx, max), with the storables the
\* callers have created (refs 1, or negative for a static one; each held by
\* its creator), the threads of active idle, and the arguments of the run.
InitWith(active, maxes, statics, m) ==
    /\ head = NULL /\ tail = NULL /\ size = 0
    /\ max \in maxes
    /\ hash = [r \in RefKeys |-> NULL]
    /\ items = [i \in Items |-> NoItem]
    /\ isStatic \in statics
    /\ refs = [v \in Vals |-> IF v \in isStatic THEN -1 ELSE 1]
    /\ keyrefs = [k \in Keys |-> 1]
    /\ lock = 0
    /\ pc = [t \in Threads |-> IF t \in active THEN "idle" ELSE "off"]
    /\ loc = [t \in Threads |-> NoLoc]
    /\ held = [v \in Vals |-> IF v \in m.vals THEN 1 ELSE 0]
    /\ finalized = [v \in Vals |-> 0]
    /\ fault = ""
    /\ last = NoLast
    /\ ghost = NoGhost
    /\ menu = m

StepSeq(t) ==
    \/ \E v \in menu.vals : fz_keep_storable(t, v)
    \/ \E v \in menu.vals : fz_drop_storable(t, v)
    \/ DropFree(t)
    \/ \E k \in menu.keys, v \in menu.vals, s \in menu.sizes : fz_store_item(t, k, v, s)
    \/ \E k \in menu.keys, v \in menu.vals : StoreNoMem(t, k, v)
    \/ EnsureRelock(t)
    \/ EvictUnlocked(t)
    \/ EvictReturn(t)
    \/ StoreHashInsert(t)
    \/ StoreHashFail(t)
    \/ StoreRollback(t)
    \/ StoreLinkStep(t)
    \/ \E f \in menu.frees, k \in menu.keys : fz_find_item(t, f, k)
    \/ \E f \in menu.frees, k \in menu.keys : fz_remove_item(t, f, k)
    \/ RemoveFree(t)
    \/ fz_empty_store(t)
    \/ EmptyRelock(t)
    \/ \E s \in menu.ssizes, p \in menu.phases : Scavenge(t, s, p)
    \/ ScavengeRelock(t)
    \/ NullPrev(t)

\* One thread: the operations one after the other.
NextSeq == \E t \in Threads : StepSeq(t)

MenuSeq == [rec |-> {"store", "scavenge"}, vals |-> {1, 2}, keys |-> {1, 3},
            frees |-> {"T", "U"}, sizes |-> {40, 60}, ssizes |-> {40}, phases |-> {0}]
InitSeq == InitWith({1}, {100}, {{}}, MenuSeq)
SpecSeq == InitSeq /\ [][NextSeq]_vars

\* Two threads that insert, scavenge and drop references, with declared sizes
\* near UINT_MAX among the arguments.
MenuWrap == [rec |-> {}, vals |-> {1, 2}, keys |-> {1}, frees |-> {"T", "U"},
             sizes |-> {90, UINT_MAX - 79}, ssizes |-> {40}, phases |-> {0}]
InitWrap == InitWith({1, 2}, {100}, {{}}, MenuWrap)
NextWrap ==
    \E t \in Threads :
        \/ \E v \in menu.vals : fz_drop_storable(t, v)
        \/ DropFree(t)
        \/ \E k \in menu.keys, v \in menu.vals, s \in menu.sizes : fz_store_item(t, k, v, s)
        \/ StoreHashInsert(t)
        \/ StoreLinkStep(t)
        \/ EvictUnlocked(t)
        \/ EvictReturn(t)
        \/ EnsureRelock(t)
        \/ NullPrev(t)
        \/ \E s \in menu.ssizes, p \in menu.phases : Scavenge(t, s, p)
        \/ ScavengeRelock(t)
        \/ UseAfterFree(t)
SpecWrap == InitWrap /\ [][NextWrap]_vars

\* One thread, pressure of every kind: inserts that overflow the store and
\* scavenging from the first and from the last phase, for a small request, a
\* large one and one that overflows size + store->size.
MenuPressure == [rec |-> {"spared"}, vals |-> {1, 2}, keys |-> {1, 3}, frees |-> {"T"},
                 sizes |-> {40, 60}, ssizes |-> {10, 40, UINT_MAX}, phases |-> {0, 16}]
InitPressure == InitWith({1}, {100}, {{}}, MenuPressure)
SpecPressure == InitPressure /\ [][NextSeq]_vars

\* One thread, three storables of the same declared size, three of which
\* fill the store, under opaque keys; the recency order and the evictions are
\* recorded.
MenuLru == [rec |-> {"lru"}, vals |-> {1, 2, 3}, keys |-> {3}, frees |-> {"T", "U"},
            sizes |-> {30}, ssizes |-> {5}, phases |-> {0}]
InitLru == InitWith({1}, {100}, {{}}, MenuLru)
NextLru ==
    \E t \in Threads :
        \/ \E v \in menu.vals : fz_drop_storable(t, v)
        \/ DropFree(t)
        \/ \E k \in menu.keys, v \in menu.vals, s \in menu.sizes : fz_store_item(t, k, v, s)
        \/ \E f \in menu.frees, k \in menu.keys : fz_find_item(t, f, k)
        \/ EvictUnlocked(t)
        \/ EvictReturn(t)
        \/ EnsureRelock(t)
        \/ NullPrev(t)
        \/ \E s \in menu.ssizes, p \in menu.phases : Scavenge(t, s, p)
        \/ ScavengeRelock(t)
SpecLru == InitLru /\ [][NextLru]_vars

\* One thread that inserts, looks up and removes under the indirect keys
\* (7 0 R) and (8 0 R), with a value of each free function.
MenuFind == [rec |-> {"find"}, vals |-> {1, 2}, keys |-> {1, 2}, frees |-> {"T", "U"},
             sizes |-> {40}, ssizes |-> {}, phases |-> {}]
InitFind == InitWith({1}, {100}, {{}}, MenuFind)
NextFind ==
    \E t \in Threads :
        \/ \E v \in menu.vals : fz_drop_storable(t, v)
        \/ DropFree(t)
        \/ \E k \in menu.keys, v \in menu.vals, s \in menu.sizes : fz_store_item(t, k, v, s)
        \/ StoreHashInsert(t)
        \/ StoreLinkStep(t)
        \/ \E f \in menu.frees, k \in menu.keys : fz_find_item(t, f, k)
        \/ \E f \in menu.frees, k \in menu.keys : fz_remove_item(t, f, k)
        \/ RemoveFree(t)
        \/ EvictUnlocked(t)
        \/ EvictReturn(t)
        \/ EnsureRelock(t)
        \/ NullPrev(t)
SpecFind == InitFind /\ [][NextFind]_vars

\* Three threads, one storable static: threads 1 and 2 insert, thread 3
\* drops the references of the callers.
Menu4 == [rec |-> {}, vals |-> {1, 2, 3}, keys |-> {3}, frees |-> {"T"},
          sizes |-> {30, 60}, ssizes |-> {}, phases |-> {}]
Init4 == InitWith({1, 2, 3}, {120}, {{1}}, Menu4)
Next4 ==
    \/ \E v \in menu.vals : fz_drop_storable(3, v)
    \/ DropFree(3)
    \/ \E t \in {1, 2} :
          \/ \E k \in menu.keys, v \in menu.vals, s \in menu.sizes : fz_store_item(t, k, v, s)
          \/ EvictUnlocked(t)
          \/ EvictReturn(t)
          \/ EnsureRelock(t)
          \/ NullPrev(t)
          \/ UseAfterFree(t)
Spec4 == Init4 /\ [][Next4]_vars

\* Two threads, an unbounded store: thread 1 inserts under the indirect key
\* (7 0 R) a value of each free function, thread 2 looks (T, (7 0 R)) up and
\* drops the references the callers hold.
MenuRace == [rec |-> {}, vals |-> {1, 2}, keys |-> {1}, frees |-> {"T"},
             sizes |-> {40}, ssizes |-> {}, phases |-> {}]
InitRace == InitWith({1, 2}, {FZ_STORE_UNLIMITED}, {{}}, MenuRace)
NextRace ==
    \/ \E k \in menu.keys, v \in menu.vals, s \in menu.sizes : fz_store_item(1, k, v, s)
    \/ StoreHashInsert(1)
    \/ StoreLinkStep(1)
    \/ \E f \in menu.frees, k \in menu.keys : fz_find_item(2, f, k)
    \/ \E v \in menu.vals : fz_drop_storable(2, v)
    \/ DropFree(2)
    \/ UseAfterFree(2)
SpecRace == InitRace /\ [][NextRace]_vars

\* One thread that inserts under the indirect keys (7 0 R) and (8 0 R) into a
\* store of 100 bytes, where fz_hash_insert may throw; the state at the call of
\* each insert is kept for the comparison.
MenuRollback == [rec |-> {"rollback"}, vals |-> {1, 2}, keys |-> {1, 2}, frees |-> {"T", "U"},
                 sizes |-> {40}, ssizes |-> {}, phases |-> {}]
InitRollback == InitWith({1}, {100}, {{}}, MenuRollback)
NextRollback ==
    \E t \in Threads :
        \/ \E v \in menu.vals : fz_drop_storable(t, v)
        \/ DropFree(t)
        \/ \E k \in menu.keys, v \in menu.vals, s \in menu.sizes : fz_store_item(t, k, v, s)
        \/ StoreHashInsert(t)
        \/ StoreHashFail(t)
        \/ StoreRollback(t)
        \/ StoreLinkStep(t)
        \/ \E f \in menu.frees, k \in menu.keys : fz_remove_item(t, f, k)
        \/ RemoveFree(t)
        \/ EvictUnlocked(t)
        \/ EvictReturn(t)
        \/ EnsureRelock(t)
        \/ NullPrev(t)
SpecRollback == InitRollback /\ [][NextRollback]_vars

\* One thread that inserts and looks up under an indirect and an opaque key;
\* storable 3 is static; three items fill the store.
MenuTouch == [rec |-> {"lru"}, vals |-> {1, 2, 3}, keys |-> {1, 3}, frees |-> {"T", "U"},
              sizes |-> {30}, ssizes |-> {}, phases |-> {}]
InitTouch == InitWith({1}, {100}, {{3}}, MenuTouch)
NextTouch ==
    \E t \in Threads :
        \/ \E v \in menu.vals : fz_drop_storable(t, v)
        \/ DropFree(t)
        \/ \E k \in menu.keys, v \in menu.vals, s \in menu.sizes : fz_store_item(t, k, v, s)
        \/ StoreHashInsert(t)
        \/ StoreLinkStep(t)
        \/ \E f \in menu.frees, k \in menu.keys : fz_find_item(t, f, k)
        \/ EvictUnlocked(t)
        \/ EvictReturn(t)
        \/ EnsureRelock(t)
        \/ NullPrev(t)
SpecTouch == InitTouch /\ [][NextTouch]_vars

\* Two threads and a store of 100 bytes: thread 1 inserts items of 40 bytes
\* under an opaque key and drops the callers' references, thread 2 removes
\* items and empties the store.
MenuPin == [rec |-> {}, vals |-> {1, 2}, keys |-> {3}, frees |-> {"T", "U"},
            sizes |-> {40}, ssizes |-> {}, phases |-> {}]
InitPin == InitWith({1, 2}, {100}, {{}}, MenuPin)
NextPin ==
    \/ \E v \in menu.vals : fz_drop_storable(1, v)
    \/ DropFree(1)
    \/ \E k \in menu.keys, v \in menu.vals, s \in menu.sizes : fz_store_item(1, k, v, s)
    \/ EnsureRelock(1)
    \/ NullPrev(1)
    \/ UseAfterFree(1)
    \/ \E f \in menu.frees, k \in menu.keys : fz_remove_item(2, f, k)
    \/ RemoveFree(2)
    \/ fz_empty_store(2)
    \/ EmptyRelock(2)
    \/ \E t \in {1, 2} : EvictUnlocked(t) \/ EvictReturn(t)
SpecPin == InitPin /\ [][NextPin]_vars

\* Two threads and a store of 100 bytes that holds V1 under (7 0 R) and V2
\* under (8 0 R), inserted in this order by fz_store_item, each still held by
\* its caller: thread 1 scavenges and removes, thread 2 looks the keys up and
\* drops the references the callers hold.
MenuEvict == [rec |-> {}, vals |-> {1, 2}, keys |-> {1, 2}, frees |-> {"T", "U"},
              sizes |-> {40}, ssizes |-> {UINT_MAX}, phases |-> {0}]
InitEvict ==
    /\ head = 2 /\ tail = 1 /\ size = 80
    /\ max = 100
    /\ hash = [r \in RefKeys |-> IF r = refkey("T", 1) THEN 1
                                 ELSE IF r = refkey("U", 2) THEN 2 ELSE NULL]
    /\ items = [i \in Items |->
                  IF i = 1 THEN [key |-> 1, val |-> 1, size |-> 40, next |-> NULL, prev |-> 2,
                                 alive |-> TRUE]
                  ELSE IF i = 2 THEN [key |-> 2, val |-> 2, size |-> 40, next |-> 1,
                                      prev |-> NULL, alive |-> TRUE]
                  ELSE NoItem]
    /\ isStatic = {}
    /\ refs = [v \in Vals |-> IF v \in {1, 2} THEN 2 ELSE 1]
    /\ keyrefs = [k \in Keys |-> IF k \in {1, 2} THEN 2 ELSE 1]
    /\ lock = 0
    /\ pc = [t \in Threads |-> IF t \in {1, 2} THEN "idle" ELSE "off"]
    /\ loc = [t \in Threads |-> NoLoc]
    /\ held = [v \in Vals |-> IF v \in {1, 2} THEN 1 ELSE 0]
    /\ finalized = [v \in Vals |-> 0]
    /\ fault = ""
    /\ last = NoLast
    /\ ghost = [NoGhost EXCEPT !.lru = <<2, 1>>]
    /\ menu = MenuEvict
NextEvict ==
    \/ \E s \in menu.ssizes, p \in menu.phases : Scavenge(1, s, p)
    \/ ScavengeRelock(1)
    \/ EvictUnlocked(1)
    \/ EvictReturn(1)
    \/ \E f \in menu.frees, k \in menu.keys : fz_remove_item(1, f, k)
    \/ RemoveFree(1)
    \/ \E f \in menu.frees, k \in menu.keys : fz_find_item(2, f, k)
    \/ \E v \in menu.vals : fz_drop_storable(2, v)
    \/ DropFree(2)
    \/ \E t \in {1, 2} : UseAfterFree(t)
SpecEvict == InitEvict /\ [][NextEvict]_vars

\* One thread, storable 3 static, a bounded or an unbounded store: inserts
\* under an opaque key, and scavenging from every phase for no bytes and for
\* a request that overflows size + store->size.
MenuStarve == [rec |-> {"scavenge"}, vals |-> {1, 3}, keys |-> {3}, frees |-> {"T"},
               sizes |-> {40}, ssizes |-> {0, UINT_MAX}, phases |-> 0..16]
InitStarve == InitWith({1}, {100, FZ_STORE_UNLIMITED}, {{3}}, MenuStarve)
NextStarve ==
    \E t \in Threads :
        \/ \E v \in menu.vals : fz_drop_storable(t, v)
        \/ DropFree(t)
        \/ \E k \in menu.keys, v \in menu.vals, s \in menu.sizes : fz_store_item(t, k, v, s)
        \/ EvictUnlocked(t)
        \/ EvictReturn(t)
        \/ EnsureRelock(t)
        \/ NullPrev(t)
        \/ \E s \in menu.ssizes, p \in menu.phases : Scavenge(t, s, p)
        \/ ScavengeRelock(t)
SpecStarve == InitStarve /\ [][NextStarve]_vars

\* ------------------------------------------------------------- properties
\* No store operation is in progress (and the program has not crashed).
Idle == Running /\ \A t \in Threads : pc[t] \in {"idle", "off"}

ListItems == Range(ListFromHead)

\* C1: whenever no store operation is in progress, store->size is the sum of
\* the declared sizes of the items reachable from store->head.
C1_SizeIsListTotal == Idle => size = ListTotal

\* C2: an insert into a bounded store that does not fit, while the evictable
\* items total at least the overflow, does not crash, returns with its item
\* linked, and leaves store->size <= store->max.
C2_InsertEvictsThenAdmits ==
    /\ \A t \in Threads : loc[t].pre /\ pc[t] \in {"es_evict", "es_relock", "es_back"}
                             => fault # "null"
    /\ last.op = "store" /\ last.pre => last.ret = 1 /\ last.n <= max

\* C3: fz_store_scavenge called with *phase == 0 for N > 0 bytes, on a store
\* whose items are all evictable and total at least N, returns 1 and has
\* reduced store->size by at least N.
C3_ScavengeFreesRequest ==
    last.op = "scavenge" /\ last.pre => last.ret = 1 /\ last.n >= last.val

\* C4: the free function of a storable runs at most once, only when its
\* count has gone from 1 to 0 (so none of its holders still has a reference),
\* and never for a static storable; a counted storable whose count is 0 has
\* been freed or is about to be by the thread that took the count to 0.
FreePending(v) ==
    \E t \in Threads :
        \/ pc[t] = "drop_free" /\ loc[t].val = v
        \/ pc[t] \in {"es_evict", "scv_evict", "clr_evict"} /\ loc[t].drop
                /\ items[loc[t].eitem].val = v
        \/ pc[t] = "rm_free" /\ loc[t].drop /\ items[loc[t].item].val = v

C4_FinalizeExactlyOnce ==
    \A v \in Vals :
        /\ finalized[v] <= 1
        /\ v \in isStatic => finalized[v] = 0 /\ ~FreePending(v)
        /\ v \notin isStatic /\ refs[v] = 0 => finalized[v] = 1 \/ FreePending(v)
        /\ v \notin isStatic /\ (finalized[v] = 1 \/ FreePending(v)) => refs[v] = 0

\* C5: the item a pressure sweep (ensure_space, scavenge) evicts is one whose
\* value no caller holds and whose count was exactly 1 (0 once the store's
\* reference is gone); and no sweep passes over an item whose count is 1 on
\* its way to the item it evicts.
UnderPressure(t) == pc[t] \in {"es_evict", "scv_evict"}

C5_OnlyUnheldEvicted ==
    /\ \A t \in Threads :
           UnderPressure(t) => /\ held[items[loc[t].eitem].val] = 0
                               /\ refs[items[loc[t].eitem].val] = 0
    /\ ghost.evRefs \subseteq {1}
    /\ ~ghost.evPassed

\* A sweep evicts the item of a value that an earlier sweep passed over while a
\* caller held it.
C5_Witness ==
    /\ ghost.evSpared
    /\ \E t \in Threads : UnderPressure(t) /\ items[loc[t].eitem].val \in ghost.spared

\* C6: in a bounded store, when an insert that linked its item returns,
\* store->size <= store->max.
C6_AdmittedWithinMax == ~ghost.admitOver

C8_LookupByFreeAndKey ==
    ~ghost.dup /\ last.op = "find" => last.ret = last.n

\* (7,0,U) was removed while V1 stayed cached under (7,0,T); the lookup of
\* (U, (7,0)) has just returned absent and V1 is still indexed under (7,0,T).
C8_Witness ==
    /\ ~ghost.dup
    /\ [free |-> "U", key |-> 1, left |-> {1}] \in ghost.removed
    /\ last = [NoLast EXCEPT !.op = "find", !.key = 1, !.free = "U"]
    /\ hash[refkey("T", 1)] # NULL
    /\ Cached("T", 1) = 1
    /\ Cached("U", 1) = NULL

\* C9: whenever no store operation is in progress, the hash table holds
\* exactly the items of the list whose key is indirect, each under its own
\* (free, num, gen), and nothing else.
C9_IndexIsIndirectList ==
    Idle =>
        /\ \A i \in ListItems :
               fz_is_indirect(items[i].key)
                   => hash[refkey(FreeOf(items[i].val), items[i].key)] = i
        /\ \A r \in RefKeys :
               hash[r] # NULL
                   => /\ hash[r] \in ListItems
                      /\ refkey(FreeOf(items[hash[r]].val), items[hash[r]].key) = r

\* C10: no thread holds the lock while it runs the free function of a
\* storable (in fz_drop_storable, in evict called from ensure_space, scavenge
\* or fz_empty_store, in fz_remove_item), and the thread to which evict has
\* returned holds the lock.
Finalizing(t) == pc[t] \in {"drop_free", "es_evict", "scv_evict", "clr_evict", "rm_free"}
EvictReturned(t) == pc[t] \in {"es_back", "scv_back", "clr_back"}

C10_FinalizeOutsideLock ==
    /\ ~ghost.finLocked
    /\ \A t \in Threads : Finalizing(t) => lock # t
    /\ \A t \in Threads : EvictReturned(t) => lock = t

\* evict has run the free function of the value it evicted and has returned.
C10_Witness ==
    \E t \in Threads :
        /\ EvictReturned(t) /\ loc[t].drop /\ lock = t
        /\ \E v \in Vals : finalized[v] = 1 /\ refs[v] = 0

\* C11: the list is acyclic, its head and tail and its prev and next links
\* agree, and every entry that was linked and has not been evicted or removed
\* is in it exactly once, whatever lookups of the key ran while the insert had
\* released the lock to update the hash table.
Reverse(seq) == [n \in 1..Len(seq) |-> seq[Len(seq) + 1 - n]]

ListWellFormed ==
    /\ Len(ListFromHead) <= MaxItems
    /\ Len(ListFromTail) <= MaxItems
    /\ ListFromTail = Reverse(ListFromHead)
    /\ head # NULL => items[head].prev = NULL
    /\ tail # NULL => items[tail].next = NULL
    /\ \A m, n \in DOMAIN ListFromHead : ListFromHead[m] = ListFromHead[n] => m = n

C11_LookupDuringInsert ==
    /\ ListWellFormed
    /\ Range(ghost.lru) \subseteq ListItems

\* C12: when fz_hash_insert has thrown and fz_store_item returns, store->size,
\* the list, the hash table, the count of the value and the number of
\* references to the key object are what they were when it was called.
C12_HashFailRollsBack ==
    [][\A t \in Threads :
          pc[t] = "store_rollback" /\ pc'[t] = "idle"
              => [size |-> size', list |-> ListFromHead', hash |-> hash',
                  refs |-> refs'[loc[t].val], keyrefs |-> keyrefs'[loc[t].key]]
                 = loc[t].snap]_vars

\* C13: an insert that gives up because ensure_space cannot free enough has
\* evicted nothing: when it returns without having linked its item, the list
\* and store->size are what they were when it was called.
C13_AbandonEvictsNothing ==
    [][\A t \in Threads :
          pc[t] = "es_back" /\ pc'[t] = "idle" /\ head' # loc[t].item
              => /\ size' = loc[t].snap.size
                 /\ ListFromHead' = loc[t].snap.list]_vars

\* What a step of fz_find_item(free, k) does to the store, where bump(v) is
\* the count of the value v it returns: nothing when it returns absent; when
\* it returns the value of item i, i is at the head, the other items follow
\* in the order they had, and only the count of v has changed.
FindFrame(t, free, k, bump(_)) ==
    LET i == FindEntry(free, k) IN
    fz_find_item(t, free, k) =>
        /\ size' = size /\ hash' = hash /\ finalized' = finalized
        /\ i = NULL => UNCHANGED <<head, tail, items, refs>>
        /\ i \notin {NULL, -1} =>
               /\ ListFromHead' = <<i>> \o Without(ListFromHead, i)
               /\ ListFromTail' = Reverse(ListFromHead')
               /\ refs' = [refs EXCEPT ![items[i].val] = bump(items[i].val)]

\* C14 as stated: a lookup that misses changes nothing; a lookup that hits
\* moves the hit item to the head of the list, keeps the order of the others
\* and adds exactly one to the count of its value.
C14_HitAddsOne ==
    [][\A t \in Threads, free \in Frees, k \in Keys :
          FindFrame(t, free, k, LAMBDA v : refs[v] + 1)]_vars

\* C14, amended: as above, but the count of a static value (negative) stays
\* as it is.
C14_LookupFrame ==
    [][\A t \in Threads, free \in Frees, k \in Keys :
          FindFrame(t, free, k, LAMBDA v : IF refs[v] > 0 THEN refs[v] + 1 ELSE refs[v])]_vars

\* a, b, c were inserted in this order and b has been looked up since: the
\* list is b, c, a and b has the reference of the lookup.
C14_Witness ==
    \E a, b, c \in Vals :
        /\ Cardinality({a, b, c}) = 3
        /\ ghost.born = <<a, b, c>>
        /\ [n \in DOMAIN ListFromHead |-> items[ListFromHead[n]].val] = <<b, c, a>>
        /\ refs[b] = 3 /\ held[b] = 2

\* C15: a phase of fz_store_scavenge evicts only when the request plus
\* store->size exceeds the phase's ceiling, and then with the target
\* size + store->size - max, the sum clamped to UINT_MAX instead of wrapping.
\* (All the evictions of a call belong to one phase, so store->size at the
\* start of that phase is its value at the call.)
C15_PhaseEvictsWhenOver ==
    \A t \in Threads :
        pc[t] = "scv_evict" =>
            LET sum == loc[t].ssize + loc[t].size0 IN
            /\ sum > loc[t].smax
            /\ loc[t].tofree = (IF sum > UINT_MAX THEN UINT_MAX ELSE sum) - loc[t].smax

\* C16: when evict has returned to ensure_space (the lock is taken again),
\* the predecessor the sweep pinned is still an item of the store, its value
\* has not been freed, and the count of the value is at least 1 once the pin
\* is taken off.
C16_PinnedPrevSurvives ==
    \A t \in Threads :
        pc[t] = "es_back" /\ loc[t].prev # NULL =>
            /\ items[loc[t].prev].alive
            /\ loc[t].prev \in ListItems
            /\ finalized[items[loc[t].prev].val] = 0
            /\ refs[items[loc[t].prev].val] - 1 >= 1

\* C17: pass 2 of ensure_space unpins only a predecessor that exists: when
\* evict has returned for an item that had no predecessor (the head of the
\* list), the sweep goes on without a NULL dereference.
C17_NoPrevNoUnpin ==
    \A t \in Threads :
        pc[t] = "es_back" /\ loc[t].prev = NULL => fault # "null"

\* C18: a value a caller holds a reference to (its own, or one a lookup gave
\* it) has not been freed and is not about to be, and its count includes the
\* callers' references; and an item that evict or fz_remove_item has unlinked
\* is not put back into the list by a lookup.
C18_LookupHoldsReference ==
    /\ \A v \in Vals :
           held[v] > 0 => finalized[v] = 0 /\ ~FreePending(v) /\ refs[v] >= held[v]
    /\ \A t \in Threads :
           /\ pc[t] \in {"es_evict", "scv_evict", "clr_evict"} => loc[t].eitem \notin ListItems
           /\ pc[t] = "rm_free" => loc[t].item \notin ListItems

\* C19: in a bounded store no item whose declared size is larger than
\* store->max is admitted (reserved or linked), and the sum
\* store->size + itemsize an insert reserves does not exceed UINT_MAX.
C19_OversizedNeverAdmitted ==
    max # FZ_STORE_UNLIMITED =>
        /\ \A i \in ListItems : items[i].size <= max
        /\ \A t \in Threads :
               pc[t] \in {"store_hash", "store_link"} =>
                   /\ loc[t].itemsize <= max
                   /\ loc[t].size0 + loc[t].itemsize <= UINT_MAX

\* C20: fz_store_scavenge called with *phase in 0..16 on a store none of
\* whose items is evictable (every value is held or static) never gets to
\* evict, returns 0 with store->size as it was, and stops with *phase at most
\* 17 (at most 17 turns of its loop).
C20_NothingEvictableFails ==
    /\ \A t \in Threads :
           pc[t] \in {"scv_evict", "scv_relock", "scv_back"} => ~loc[t].none
    /\ last.op = "scavenge" /\ last.none =>
           /\ last.ret = 0 /\ last.n = 0
           /\ last.phase > last.phase0 /\ last.phase <= 17

\* The store holds a static value and a value its caller holds, and
\* fz_store_scavenge, called with *phase == 0, has gone through the phases to
\* the last and returned 0.
C20_Witness ==
    /\ Idle /\ NoEvictable
    /\ Len(ListFromHead) = 2
    /\ {items[i].val : i \in ListItems} = {1, 3}
    /\ refs[1] = 2 /\ refs[3] = -1
    /\ last.op = "scavenge" /\ last.none /\ last.ret = 0 /\ last.n = 0
    /\ last.phase0 = 0 /\ last.phase = 17
    /\ size = 80
====
